---- MODULE Spec2Model ----
(***************************************************************************)
(* A model of the conversation agent of rslnz/assistant-backend:           *)
(* ConversationManager.process_message and the helpers it drives           *)
(* (IterationController, ContextUpdater, TagHandler, ToolManager), at the  *)
(* level of the {tag, content} events the TagProcessor hands to the agent  *)
(* and of the outbound events the agent yields.                            *)
(*                                                                         *)
(* The agent's `state` object is an LLMProcessingState on which the agent  *)
(* also uses max_iterations, add_system_message and add_ai_message, which  *)
(* the repository declares on ConversationState; the model's state is the  *)
(* union of the two classes, as the agent uses it. The status it holds is  *)
(* a Status of prompt_structures.py, whose `status` field is a plain str.  *)
(***************************************************************************)
EXTENDS Integers, Sequences, FiniteSets, TLC

\* ------------------------------------------------------------------ bounds

\* Tag events one LLM stream delivers before it ends (the debug event apart).
MaxStreamLen == 2
\* ... and in the runs of OrderSpec, whose streams hold fewer kinds of event.
MaxOrderLen == 3
\* Plans carry total_steps in 1..MaxSteps.
MaxSteps == 3
\* Entries of the incoming context's history.
MaxCtx == 1

\* ------------------------------------------------------- program constants

\* ConversationState.max_iterations: int = 3
default_max_iterations == 3
\* IterationController.__init__(extra_iterations: int = 1)
extra_iterations == 1
\* settings.MAX_HISTORY_MESSAGES
MAX_HISTORY_MESSAGES == 10

\* --------------------------------------------------------------- data model

Role == {"human", "ai", "system"}

\* StatusEnum, plus a string outside it: Status.status is declared `str`.
StatusValues == {"continue", "clarify", "complete", "other"}
NoStatus == "none"

NoPlan == [total_steps |-> -1, current_step |-> 0, nsteps |-> 0]

\* Plan payloads that pass Plan.model_validate_json: three unconstrained fields.
Plans ==
    { [total_steps |-> t, current_step |-> 1, nsteps |-> t] : t \in 1..MaxSteps }
    \cup { [total_steps |-> 1, current_step |-> 1, nsteps |-> 0] }

\* ToolManager.tools by name, and a name that is not registered.
RegisteredTools == {"web_search", "web_parse", "math_evaluation", "get_datetime"}
ToolNames == {"math_evaluation", "nonexistent"}

\* ToolUse.id: taken from the payload when the payload has one ...
PayloadIds == {"a"}
\* ... and a fresh uuid4 otherwise; the n-th generated id of the request.
Uuid(n) == <<"uuid", n>>

VARIABLES
    pc,                  \* where process_message stands
    context,             \* ConversationContext.history of the request, as roles
    incoming,            \* the history the client sent (never written)
    messages,            \* state.messages
    initial_message_count,
    iteration,           \* _conversation_loop's local
    max_iterations,      \* state.max_iterations
    status,              \* state.status, NoStatus when None
    current_plan,        \* state.current_plan, NoPlan when None
    tool_queue,          \* state.tool_queue
    tool_results,        \* state.tool_results
    tool_index,          \* position of `for tool_use in tool_queue`
    has_error,           \* _conversation_loop's local
    stream_len,          \* tag events delivered by the open LLM stream
    section_open,        \* a text section is open in the tag processor
    streams,             \* LLM streams opened by llm_service.stream
    uuids,               \* ids generated so far
    summaries,           \* Len(state.summary_history); the last is latest_summary
    prompt,              \* the messages of the last LLM call
    events,              \* the outbound events yielded so far
    \* TagProcessor (one token stream, taken on its own in TagSpec)
    state,               \* self.state
    current_tag,         \* self.current_tag
    content_buffer,      \* self.content_buffer
    tag_buffer,          \* self.tag_buffer
    debug_content,       \* self.debug_content
    response,            \* the sections the LLM wrote, as (tag, content) pairs
    text,                \* the characters of the whole LLM response
    rest,                \* the characters not yet delivered as tokens
    yielded,             \* the {tag, content} events process_stream yielded
    stream_ended,        \* process_stream has returned
    \* Concurrent process_message calls (taken on their own in ConcSpec)
    calls,               \* per call: its locals, its state, its context
    processors,          \* the TagProcessor objects, by identity
    \* HTMLFetcher.fetch (taken on its own in FetchSpec)
    fetcher              \* the attempt, the outcomes and the sleeps of one fetch

\* The tag processor and the token stream it reads.
processor == <<state, current_tag, content_buffer, tag_buffer, debug_content,
               response, text, rest, yielded, stream_ended>>

\* The calls that run side by side on one ConversationManager, and the fetch
\* of the web search tool.
concurrent == <<calls, processors, fetcher>>

vars == <<pc, context, incoming, messages, initial_message_count, iteration,
          max_iterations, status, current_plan, tool_queue, tool_results,
          tool_index, has_error, stream_len, section_open, streams, uuids,
          summaries, prompt,
          events, processor, concurrent>>

Event(t, c) == [type |-> t, content |-> c]
\* A langchain message of state.messages or of a prompt: its type, what it
\* holds, and for a continuation message the tool results it lists.
Message(t, k, c) == [type |-> t, kind |-> k, content |-> c]

Last(s) == s[Len(s)]

RECURSIVE SelectRoles(_)
SelectRoles(ms) ==
    IF ms = <<>> THEN <<>>
    ELSE IF Head(ms).type \in {"human", "ai"}
         THEN <<Head(ms).type>> \o SelectRoles(Tail(ms))
         ELSE SelectRoles(Tail(ms))

\* ConversationContext.get_recent_messages: the last `limit` entries.
GetRecentMessages(hist, limit) ==
    IF Len(hist) <= limit THEN hist
    ELSE SubSeq(hist, Len(hist) - limit + 1, Len(hist))

\* MessagePreparer.prepare_messages: the conversation summary when the state
\* has one (`nsum` summaries received), the recent history, the human message
\* holding `message`, the format instructions.
PrepareMessages(hist, nsum, message) ==
    (IF nsum > 0 THEN <<Message("system", "summary", <<>>)>> ELSE <<>>) \o
    [i \in 1..Len(GetRecentMessages(hist, MAX_HISTORY_MESSAGES)) |->
        Message(GetRecentMessages(hist, MAX_HISTORY_MESSAGES)[i], "history", <<>>)]
    \o <<Message("human", message.kind, message.content),
         Message("system", "format", <<>>)>>

\* ------------------------------------------------------ IterationController

ShouldTerminate(it, max) == it >= max

UpdateMaxIterations(plan, max) ==
    IF plan # NoPlan THEN plan.total_steps + extra_iterations ELSE max

IsConversationComplete(st) == st \in {"clarify", "complete"}

\* LLMProcessingState.prepare_continuation_message: the message appended.
ContinuationMessage(results) == Message("system", "continuation", results)

\* IterationController.prepare_for_next_iteration: the messages afterwards.
MessagesForNextIteration(ms, st, results) ==
    IF st = "continue" THEN Append(ms, ContinuationMessage(results)) ELSE ms

\* ... and the tool_results afterwards (cleared by the continuation message).
ResultsForNextIteration(st, results) ==
    IF st = "continue" THEN <<>> ELSE results

\* ------------------------------------------------------------------- Init

\* The `message` argument of process_message.
UserInput == Message("human", "input", <<>>)

\* process_message up to the first loop test: the human message is added to
\* the context, the state is initialised from it.
AgentInit ==
    /\ incoming \in UNION { [1..n -> Role] : n \in 0..MaxCtx }
    /\ context = Append(incoming, "human")
    /\ messages = <<Message("system", "system_prompt", <<>>)>>
                    \o PrepareMessages(Append(incoming, "human"), 0, UserInput)
    /\ initial_message_count = Len(messages)
    /\ pc = "loop"
    /\ iteration = 0
    /\ max_iterations = default_max_iterations
    /\ status = NoStatus
    /\ current_plan = NoPlan
    /\ tool_queue = <<>>
    /\ tool_results = <<>>
    /\ tool_index = 1
    /\ has_error = FALSE
    /\ stream_len = 0
    /\ section_open = FALSE
    /\ streams = 0
    /\ uuids = 0
    /\ summaries = 0
    /\ prompt = <<>>
    /\ events = <<>>

\* TagProcessor.__init__ / reset, and no token stream.
ProcessorIdle ==
    /\ state = "LOOKING_FOR_TAG"
    /\ current_tag = <<>>
    /\ content_buffer = <<>>
    /\ tag_buffer = <<>>
    /\ debug_content = <<>>
    /\ response = <<>>
    /\ text = <<>>
    /\ rest = <<>>
    /\ yielded = <<>>
    /\ stream_ended = FALSE

\* No fetch under way.
NoFetch ==
    [pc |-> "idle", attempt |-> 0, outcomes |-> <<>>, waits |-> <<>>,
     result |-> ""]

\* No second call runs beside the request, and no fetch.
ConcurrentIdle ==
    /\ calls = <<>>
    /\ processors = <<>>
    /\ fetcher = NoFetch

Init ==
    /\ AgentInit
    /\ ProcessorIdle
    /\ ConcurrentIdle

\* --------------------------------------------------- _conversation_loop

\* while not should_terminate(...): iteration += 1; build the prompt from the
\* last state message and open the LLM stream.
StartIteration ==
    /\ pc = "loop"
    /\ ~ShouldTerminate(iteration, max_iterations)
    /\ iteration' = iteration + 1
    /\ prompt' = PrepareMessages(context, summaries, Last(messages))
    /\ streams' = streams + 1
    /\ has_error' = FALSE
    /\ stream_len' = 0
    /\ pc' = "stream"
    /\ UNCHANGED <<context, incoming, processor, concurrent, messages, initial_message_count,
                   max_iterations, status, current_plan, tool_queue,
                   tool_results, tool_index, section_open, uuids, summaries,
                   events>>

\* The while condition fails: the loop is left, with the overrun error unless
\* the conversation is complete.
OverrunEvents(st, max) ==
    IF ~IsConversationComplete(st)
    THEN <<Event("error", <<"max_iterations", max>>)>>
    ELSE <<>>

LeaveLoop ==
    /\ pc = "loop"
    /\ ShouldTerminate(iteration, max_iterations)
    /\ events' = events \o OverrunEvents(status, max_iterations)
    /\ pc' = "finish"
    /\ UNCHANGED <<context, incoming, processor, concurrent, messages, initial_message_count,
                   iteration, max_iterations, status, current_plan, tool_queue,
                   tool_results, tool_index, has_error, stream_len,
                   section_open, streams, uuids, summaries, prompt>>

\* ------------------------------------- _process_llm_response: tag handlers

\* What every handler of a tag event leaves alone.
HandlerFrame ==
    UNCHANGED <<context, incoming, processor, concurrent, initial_message_count, iteration,
                max_iterations, tool_results, tool_index, streams, prompt>>

\* DeliverWithin with `has_error = True` lost.
DeliverWithin_NoFlag(bound, out) ==
    /\ pc = "stream"
    /\ stream_len < bound
    /\ stream_len' = stream_len + 1
    /\ events' = events \o out
    /\ has_error' = has_error
    /\ UNCHANGED pc

\* The next tag event of the open stream is taken; an outbound event of type
\* error makes _conversation_loop set has_error.
DeliverWithin(bound, out) ==
    /\ pc = "stream"
    /\ stream_len < bound
    /\ stream_len' = stream_len + 1
    /\ events' = events \o out
    /\ has_error' = (has_error \/ \E i \in 1..Len(out) : out[i].type = "error")
    /\ UNCHANGED pc

Deliver(out) == DeliverWithin(MaxStreamLen, out)

\* A payload that fails model_validate_json: the handler returns an error event.
ValidationFailure(tag) == <<Event("error", <<"validation", tag>>)>>

handle_plan_tag ==
    /\ ~section_open
    /\ \/ \E p \in Plans :
            /\ Deliver(<<>>)
            /\ current_plan' = p
       \/ /\ Deliver(ValidationFailure("plan"))
          /\ UNCHANGED current_plan
    /\ UNCHANGED <<messages, status, tool_queue, section_open, uuids, summaries>>
    /\ HandlerFrame

handle_reasoning_tag ==
    /\ ~section_open
    /\ \/ Deliver(<<Event("reasoning", "notification")>>)
       \/ Deliver(ValidationFailure("reasoning"))
    /\ UNCHANGED <<messages, status, current_plan, tool_queue, section_open, uuids,
                   summaries>>
    /\ HandlerFrame

\* ToolUse.model_validate_json: the id of the payload, or a fresh uuid4.
handle_tool_tag ==
    /\ ~section_open
    /\ \/ \E n \in ToolNames, given \in PayloadIds \cup {"absent"} :
            /\ Deliver(<<>>)
            /\ tool_queue' = Append(tool_queue,
                 [id |-> IF given = "absent" THEN Uuid(uuids + 1) ELSE <<"given", given>>,
                  name |-> n])
            /\ uuids' = IF given = "absent" THEN uuids + 1 ELSE uuids
       \/ /\ Deliver(ValidationFailure("tool"))
          /\ UNCHANGED <<tool_queue, uuids>>
    /\ UNCHANGED <<messages, status, current_plan, section_open, summaries>>
    /\ HandlerFrame

handle_status_tag ==
    /\ ~section_open
    /\ \/ \E s \in StatusValues :
            /\ Deliver(<<>>)
            /\ status' = s
       \/ /\ Deliver(ValidationFailure("status"))
          /\ UNCHANGED status
    /\ UNCHANGED <<messages, current_plan, tool_queue, section_open, uuids, summaries>>
    /\ HandlerFrame

\* A streamed event of the text section (the first one opens the section).
handle_text_tag ==
    /\ Deliver(<<Event("text", "token")>>)
    /\ section_open' = TRUE
    /\ UNCHANGED <<messages, status, current_plan, tool_queue, uuids, summaries>>
    /\ HandlerFrame

\* The buffered companion of the text section, emitted when it closes.
handle_full_text_tag ==
    /\ section_open
    /\ pc = "stream"
    /\ messages' = Append(messages, Message("ai", "text", <<>>))
    /\ section_open' = FALSE
    /\ UNCHANGED <<stream_len, events, has_error, status, current_plan,
                   tool_queue, uuids, summaries, pc>>
    /\ HandlerFrame

\* The summary is appended to summary_history and becomes latest_summary.
handle_summary_tag ==
    /\ ~section_open
    /\ Deliver(<<>>)
    /\ summaries' = summaries + 1
    /\ UNCHANGED <<messages, status, current_plan, tool_queue, section_open, uuids>>
    /\ HandlerFrame

\* A tag outside Tag ("Invalid tag") or a Tag with no handler
\* (handle_unknown_tag): an error event either way.
handle_unknown_tag ==
    /\ ~section_open
    /\ \/ Deliver(<<Event("error", <<"invalid_tag">>)>>)
       \/ Deliver(<<Event("error", <<"unexpected_tag">>)>>)
    /\ UNCHANGED <<messages, status, current_plan, tool_queue, section_open, uuids,
                   summaries>>
    /\ HandlerFrame

\* The token stream ends: the processor flushes (a text section still open
\* is closed by handle_full_text_tag first) and emits the debug event, which
\* handle_debug_tag only logs.
handle_debug_tag ==
    /\ pc = "stream"
    /\ ~section_open
    /\ pc' = "after_stream"
    /\ UNCHANGED <<context, incoming, processor, concurrent, messages, initial_message_count,
                   iteration, max_iterations, status, current_plan, tool_queue,
                   tool_results, tool_index, has_error, stream_len,
                   section_open, streams, uuids, summaries, prompt, events>>

\* ------------------------------- _conversation_loop, after the LLM stream

\* MissingStatusEvents with the test of state.status lost.
MissingStatusEvents_NoTest(st) == <<>>

\* _handle_missing_status: the error event, or nothing.
MissingStatusEvents(st) ==
    IF st = NoStatus THEN <<Event("error", <<"no_status">>)>> ELSE <<>>

\* if has_error: return
ReturnOnError ==
    /\ pc = "after_stream"
    /\ has_error
    /\ pc' = "finish"
    /\ UNCHANGED <<context, incoming, processor, concurrent, messages, initial_message_count,
                   iteration, max_iterations, status, current_plan, tool_queue,
                   tool_results, tool_index, has_error, stream_len,
                   section_open, streams, uuids, summaries, prompt, events>>

\* if missing_status_error: yield it; return
ReturnOnMissingStatus ==
    /\ pc = "after_stream"
    /\ ~has_error
    /\ MissingStatusEvents(status) # <<>>
    /\ events' = events \o MissingStatusEvents(status)
    /\ pc' = "finish"
    /\ UNCHANGED <<context, incoming, processor, concurrent, messages, initial_message_count,
                   iteration, max_iterations, status, current_plan, tool_queue,
                   tool_results, tool_index, has_error, stream_len,
                   section_open, streams, uuids, summaries, prompt>>

\* if is_conversation_complete(state): return
ReturnOnComplete ==
    /\ pc = "after_stream"
    /\ ~has_error
    /\ MissingStatusEvents(status) = <<>>
    /\ IsConversationComplete(status)
    /\ pc' = "finish"
    /\ UNCHANGED <<context, incoming, processor, concurrent, messages, initial_message_count,
                   iteration, max_iterations, status, current_plan, tool_queue,
                   tool_results, tool_index, has_error, stream_len,
                   section_open, streams, uuids, summaries, prompt, events>>

\* Continue with the continuation message composed before the tools are run.
Continue_ContinuationFirst ==
    /\ pc = "after_stream"
    /\ ~has_error
    /\ MissingStatusEvents(status) = <<>>
    /\ ~IsConversationComplete(status)
    /\ max_iterations' = UpdateMaxIterations(current_plan, max_iterations)
    /\ messages' = MessagesForNextIteration(messages, status, tool_results)
    /\ IF tool_queue # <<>>
       THEN /\ pc' = "tools"
            /\ tool_index' = 1
            /\ UNCHANGED <<tool_results, status>>
       ELSE /\ pc' = "loop"
            /\ tool_results' = ResultsForNextIteration(status, tool_results)
            /\ status' = NoStatus
            /\ UNCHANGED tool_index
    /\ UNCHANGED <<context, incoming, processor, concurrent, initial_message_count, iteration,
                   current_plan, tool_queue, has_error, stream_len,
                   section_open, streams, uuids, summaries, prompt, events>>

\* update_max_iterations(state), then the tool queue when there is one,
\* else prepare_for_next_iteration(state).
Continue ==
    /\ pc = "after_stream"
    /\ ~has_error
    /\ MissingStatusEvents(status) = <<>>
    /\ ~IsConversationComplete(status)
    /\ max_iterations' = UpdateMaxIterations(current_plan, max_iterations)
    /\ IF tool_queue # <<>>
       THEN /\ pc' = "tools"
            /\ tool_index' = 1
            /\ UNCHANGED <<messages, tool_results, status>>
       ELSE /\ pc' = "loop"
            /\ messages' = MessagesForNextIteration(messages, status, tool_results)
            /\ tool_results' = ResultsForNextIteration(status, tool_results)
            /\ status' = NoStatus
            /\ UNCHANGED tool_index
    /\ UNCHANGED <<context, incoming, processor, concurrent, initial_message_count, iteration,
                   current_plan, tool_queue, has_error, stream_len,
                   section_open, streams, uuids, summaries, prompt, events>>

\* ------------------------------ _handle_tool_queue / _process_single_tool

\* ToolManager.get_tool: whether a tool of that name is registered.
GetTool(name) == name \in RegisteredTools

ToolFrame ==
    UNCHANGED <<context, incoming, processor, concurrent, initial_message_count, iteration,
                max_iterations, current_plan, has_error, stream_len,
                section_open, streams, uuids, summaries, prompt>>

\* The tool is not registered: _process_single_tool yields an error event and
\* _conversation_loop returns on it, leaving _handle_tool_queue suspended at
\* its yield (nothing is recorded, the queue is not cleared).
ToolNotAvailable ==
    /\ pc = "tools"
    /\ tool_index <= Len(tool_queue)
    /\ ~GetTool(tool_queue[tool_index].name)
    /\ events' = Append(events, Event("error", <<"not_available", tool_queue[tool_index].id>>))
    /\ pc' = "finish"
    /\ UNCHANGED <<messages, status, tool_queue, tool_results, tool_index>>
    /\ ToolFrame

\* ToolStart taking the queue from its far end.
ToolStart_Reversed ==
    /\ pc = "tools"
    /\ tool_index <= Len(tool_queue)
    /\ GetTool(tool_queue[tool_index].name)
    /\ events' = Append(events, Event("tool_start", tool_queue[Len(tool_queue) - tool_index + 1].id))
    /\ pc' = "tool_running"
    /\ UNCHANGED <<messages, status, tool_queue, tool_results, tool_index>>
    /\ ToolFrame

ToolStart ==
    /\ pc = "tools"
    /\ tool_index <= Len(tool_queue)
    /\ GetTool(tool_queue[tool_index].name)
    /\ events' = Append(events, Event("tool_start", tool_queue[tool_index].id))
    /\ pc' = "tool_running"
    /\ UNCHANGED <<messages, status, tool_queue, tool_results, tool_index>>
    /\ ToolFrame

\* ToolEndEvent without the `except Exception`: a raise of execute_tool
\* surfaces as an error event.
ToolEndEvent_NoExcept(tool_use, outcome) ==
    IF outcome = "error"
    THEN Event("error", [id |-> tool_use.id, name |-> tool_use.name, kind |-> outcome])
    ELSE Event("tool_end", [id |-> tool_use.id, name |-> tool_use.name, kind |-> outcome])

\* What _process_single_tool yields when execute_tool returns or raises.
ToolEndEvent(tool_use, outcome) ==
    Event("tool_end", [id |-> tool_use.id, name |-> tool_use.name, kind |-> outcome])

\* execute_tool returns or raises; tool_end is yielded and, once
\* _handle_tool_queue is resumed, its content is added to tool_results.
ToolEnd ==
    /\ pc = "tool_running"
    /\ \E outcome \in {"result", "error"} :
         /\ events' = Append(events, ToolEndEvent(tool_queue[tool_index], outcome))
         /\ tool_results' = Append(tool_results, ToolEndEvent(tool_queue[tool_index], outcome).content)
    /\ tool_index' = tool_index + 1
    /\ pc' = "tools"
    /\ UNCHANGED <<messages, status, tool_queue>>
    /\ ToolFrame

\* ToolQueueDone with `state.status = None` lost.
ToolQueueDone_StatusKept ==
    /\ pc = "tools"
    /\ tool_index > Len(tool_queue)
    /\ tool_queue' = <<>>
    /\ messages' = MessagesForNextIteration(messages, status, tool_results)
    /\ tool_results' = ResultsForNextIteration(status, tool_results)
    /\ pc' = "loop"
    /\ UNCHANGED <<tool_index, events, status>>
    /\ ToolFrame

\* The queue is exhausted: tool_queue.clear(), then
\* prepare_for_next_iteration(state).
ToolQueueDone ==
    /\ pc = "tools"
    /\ tool_index > Len(tool_queue)
    /\ tool_queue' = <<>>
    /\ messages' = MessagesForNextIteration(messages, status, tool_results)
    /\ tool_results' = ResultsForNextIteration(status, tool_results)
    /\ status' = NoStatus
    /\ pc' = "loop"
    /\ UNCHANGED <<tool_index, events>>
    /\ ToolFrame

\* ----------------------------------------------------- _process_conversation

\* UpdateContext over all of state.messages, the slice lost.
UpdateContext_NoSlice(hist, ms, count) ==
    hist \o SelectRoles(ms)

\* ContextUpdater.update_context: the human and ai messages added to the
\* state since initialisation are appended to the context's history.
UpdateContext(hist, ms, count) ==
    hist \o SelectRoles(SubSeq(ms, count + 1, Len(ms)))

\* ContextUpdater.create_latest_summary indexes steps[current_step - 1]:
\* whether Python raises IndexError there.
StepIndexRaises(plan) ==
    /\ plan # NoPlan
    /\ \/ plan.current_step - 1 >= plan.nsteps
       \/ plan.current_step - 1 < 0 - plan.nsteps

\* ... and reads state.status.status.value when a status is set: Status.status
\* is declared `str`, which has no attribute `value` (AttributeError).
StatusValueRaises(st) == st # NoStatus

\* Whether create_latest_summary raises.
SummaryRaises(plan, st) == StepIndexRaises(plan) \/ StatusValueRaises(st)

\* ContextUpdater.create_latest_summary: the parts joined into the summary
\* (the latest summary, the current task of the plan, the status).
CreateLatestSummary(nsum, plan, st) ==
    [latest |-> nsum, task |-> plan # NoPlan, status |-> st]

\* context.model_dump() after update_context.
ContextDump(hist, nsum, plan, st) ==
    [history |-> hist, summary |-> CreateLatestSummary(nsum, plan, st)]

\* The event that closes the request.
FinalEvents(st, dump) ==
    IF IsConversationComplete(st)
    THEN <<Event("updated_context", dump)>>
    ELSE <<Event("error", <<"not_completed">>)>>

\* _process_conversation after the loop, when update_context does not raise.
Finish ==
    /\ pc = "finish"
    /\ ~(IsConversationComplete(status) /\ SummaryRaises(current_plan, status))
    /\ context' = IF IsConversationComplete(status)
                  THEN UpdateContext(context, messages, initial_message_count)
                  ELSE context
    /\ events' = events \o FinalEvents(status,
                     ContextDump(context', summaries, current_plan, status))
    /\ pc' = "done"
    /\ UNCHANGED <<incoming, processor, concurrent, messages, initial_message_count, iteration,
                   max_iterations, status, current_plan, tool_queue,
                   tool_results, tool_index, has_error, stream_len,
                   section_open, streams, uuids, summaries, prompt>>

\* update_context raises out of process_message (IndexError, AttributeError):
\* the context has the new messages, no further event is yielded.
FinishRaises ==
    /\ pc = "finish"
    /\ IsConversationComplete(status)
    /\ SummaryRaises(current_plan, status)
    /\ context' = UpdateContext(context, messages, initial_message_count)
    /\ pc' = "raised"
    /\ UNCHANGED <<incoming, processor, concurrent, messages, initial_message_count, iteration,
                   max_iterations, status, current_plan, tool_queue,
                   tool_results, tool_index, has_error, stream_len,
                   section_open, streams, uuids, summaries, prompt, events>>

Next ==
    \/ StartIteration
    \/ LeaveLoop
    \/ handle_plan_tag
    \/ handle_reasoning_tag
    \/ handle_tool_tag
    \/ handle_status_tag
    \/ handle_text_tag
    \/ handle_full_text_tag
    \/ handle_summary_tag
    \/ handle_unknown_tag
    \/ handle_debug_tag
    \/ ReturnOnError
    \/ ReturnOnMissingStatus
    \/ ReturnOnComplete
    \/ Continue
    \/ ToolNotAvailable
    \/ ToolStart
    \/ ToolEnd
    \/ ToolQueueDone
    \/ Finish
    \/ FinishRaises

Spec == Init /\ [][Next]_vars

Terminated == pc \in {"done", "raised"}

\* ----------------------------------------- the loop over unbounded plans
(***************************************************************************)
(* Plan.total_steps is an unconstrained int and the loop reads iteration,  *)
(* max_iterations and total_steps only through `iteration >=               *)
(* max_iterations` and `max_iterations = total_steps + extra_iterations`,  *)
(* which are unchanged when the three are shifted by the same amount.      *)
(* RelSpec follows the same loop with the three counters stored relative   *)
(* to the number of iterations started (so `iteration` stays 0 and         *)
(* starting an iteration lowers the other two by one), with the histories  *)
(* (messages, context, prompt, streams) left aside and only the last       *)
(* outbound event kept: the state space is finite although total_steps is  *)
(* not bounded.                                                            *)
(***************************************************************************)

\* A plan may be ahead of the iteration count by up to MaxAhead steps.
MaxAhead == 1
\* Relative step counts at or below RelFloor all end the loop at once.
RelFloor == 0 - extra_iterations

RelPlans ==
    { [total_steps |-> t, current_step |-> 1, nsteps |-> 1] : t \in RelFloor..MaxAhead }

\* The plan when one more iteration has started.
ShiftPlan(plan) ==
    IF plan = NoPlan \/ plan.total_steps <= RelFloor THEN plan
    ELSE [plan EXCEPT !.total_steps = @ - 1]

RelFrame ==
    UNCHANGED <<context, incoming, processor, concurrent, messages, initial_message_count, iteration,
                tool_results, tool_index, section_open, streams, uuids, summaries, prompt>>

RelInit ==
    /\ Init
    /\ incoming = <<>>

\* iteration += 1, in relative terms.
RelStartIteration ==
    /\ pc = "loop"
    /\ ~ShouldTerminate(iteration, max_iterations)
    /\ max_iterations' = max_iterations - 1
    /\ current_plan' = ShiftPlan(current_plan)
    /\ has_error' = FALSE
    /\ stream_len' = 0
    /\ pc' = "stream"
    /\ UNCHANGED <<status, tool_queue, events>>
    /\ RelFrame

RelLeaveLoop ==
    /\ pc = "loop"
    /\ ShouldTerminate(iteration, max_iterations)
    /\ events' = IF OverrunEvents(status, max_iterations) = <<>> THEN events
                 ELSE <<Event("error", <<"max_iterations">>)>>
    /\ pc' = "finish"
    /\ UNCHANGED <<max_iterations, status, current_plan, tool_queue,
                   has_error, stream_len>>
    /\ RelFrame

\* The handlers of the stream's tag events, by their effect on the loop.
RelDeliver ==
    /\ pc = "stream"
    /\ stream_len < MaxStreamLen
    /\ stream_len' = stream_len + 1
    /\ UNCHANGED <<pc, max_iterations>>
    /\ RelFrame

RelPlanTag ==
    /\ RelDeliver
    /\ \E p \in RelPlans : current_plan' = p
    /\ UNCHANGED <<status, tool_queue, has_error, events>>

RelStatusTag ==
    /\ RelDeliver
    /\ \E s \in StatusValues : status' = s
    /\ UNCHANGED <<current_plan, tool_queue, has_error, events>>

RelToolTag ==
    /\ RelDeliver
    /\ tool_queue = <<>>
    /\ \E n \in ToolNames : tool_queue' = <<[id |-> <<"given", "a">>, name |-> n]>>
    /\ UNCHANGED <<current_plan, status, has_error, events>>

RelValidationFailure ==
    /\ RelDeliver
    /\ has_error' = TRUE
    /\ events' = <<Event("error", <<"validation">>)>>
    /\ UNCHANGED <<current_plan, status, tool_queue>>

RelEndStream ==
    /\ pc = "stream"
    /\ pc' = "after_stream"
    /\ UNCHANGED <<max_iterations, status, current_plan, tool_queue,
                   has_error, stream_len, events>>
    /\ RelFrame

\* The returns of the loop body: on an error event, on a missing status, on
\* a clarify/complete status.
RelReturn ==
    /\ pc = "after_stream"
    /\ \/ has_error
       \/ MissingStatusEvents(status) # <<>>
       \/ IsConversationComplete(status)
    /\ events' = IF ~has_error /\ MissingStatusEvents(status) # <<>>
                 THEN <<Event("error", <<"no_status">>)>>
                 ELSE events
    /\ pc' = "finish"
    /\ UNCHANGED <<max_iterations, status, current_plan, tool_queue,
                   has_error, stream_len>>
    /\ RelFrame

\* update_max_iterations, the tool queue (every registered tool returns; a
\* tool that is not registered ends the loop), prepare_for_next_iteration.
RelContinue ==
    /\ pc = "after_stream"
    /\ ~has_error
    /\ MissingStatusEvents(status) = <<>>
    /\ ~IsConversationComplete(status)
    /\ max_iterations' = UpdateMaxIterations(current_plan, max_iterations)
    /\ IF tool_queue # <<>> /\ ~GetTool(tool_queue[1].name)
       THEN /\ pc' = "finish"
            /\ events' = <<Event("error", <<"not_available">>)>>
            /\ UNCHANGED <<status, tool_queue>>
       ELSE /\ pc' = "loop"
            /\ events' = IF tool_queue # <<>>
                         THEN <<ToolEndEvent(tool_queue[1], "result")>>
                         ELSE events
            /\ tool_queue' = <<>>
            /\ status' = NoStatus
    /\ UNCHANGED <<current_plan, has_error, stream_len>>
    /\ RelFrame

RelFinish ==
    /\ pc = "finish"
    /\ IF IsConversationComplete(status) /\ SummaryRaises(current_plan, status)
       THEN /\ pc' = "raised"
            /\ UNCHANGED events
       ELSE /\ pc' = "done"
            /\ events' = <<Last(FinalEvents(status,
                             ContextDump(context, summaries, current_plan, status)))>>
    /\ UNCHANGED <<max_iterations, status, current_plan, tool_queue,
                   has_error, stream_len>>
    /\ RelFrame

RelNext ==
    \/ RelStartIteration
    \/ RelLeaveLoop
    \/ RelPlanTag
    \/ RelStatusTag
    \/ RelToolTag
    \/ RelValidationFailure
    \/ RelEndStream
    \/ RelReturn
    \/ RelContinue
    \/ RelFinish

\* Every LLM stream ends and every tool call returns: a step that can be
\* taken is taken.
RelSpec == RelInit /\ [][RelNext]_vars /\ WF_vars(RelNext)

\* ------------------------------------------------------ outbound sequence

Types(t) == { i \in 1..Len(events) : events[i].type = t }

HasEvent(t) == Types(t) # {}

\* The call returned: the outbound sequence is complete.
Done == pc = "done"

\* C1: the outbound sequence of a process_message call ends with an
\* updated_context or an error event, and no sequence holds both an error
\* and an updated_context event.
C1_EndsWithContextOrErrorNeverBoth ==
    Terminated =>
        /\ events # <<>>
        /\ Last(events).type \in {"updated_context", "error"}
        /\ ~(HasEvent("error") /\ HasEvent("updated_context"))

\* An error event of a fatal error: a validation failure of a buffered tag,
\* a missing status, an iteration overrun.
FatalError(e) ==
    /\ e.type = "error"
    /\ e.content[1] \in {"validation", "no_status", "max_iterations"}

\* C2: a request that hit a fatal error (a validation failure of a buffered
\* tag, a missing status, an iteration overrun) emits exactly one error
\* event, no reasoning, text, tool_start or tool_end event after it, and no
\* updated_context.
C2_FatalErrorIsSingleAndLast ==
    (Done /\ \E i \in Types("error") : FatalError(events[i])) =>
        /\ Cardinality(Types("error")) = 1
        /\ \A i \in Types("error") : \A j \in (i + 1)..Len(events) :
              events[j].type \notin {"reasoning", "text", "tool_start", "tool_end"}
        /\ ~HasEvent("updated_context")

\* C3: an updated_context event is emitted at most once in a request, and no
\* outbound event of the request follows it.
C3_UpdatedContextIsLast ==
    \A i \in Types("updated_context") : i = Len(events)

\* C3's case: a request that emitted updated_context.
C3_Emitted == HasEvent("updated_context")

\* The tool_end events of an id after position `from`.
EndsOf(id, from) ==
    { j \in Types("tool_end") : j > from /\ events[j].content.id = id }

\* C4: in a complete outbound sequence every tool_start with id i is
\* followed later by exactly one tool_end with id i, no tool_end appears
\* without an earlier tool_start of its id, and the two counts are equal.
C4_ToolStartEndPairById ==
    Done =>
        /\ Cardinality(Types("tool_start")) = Cardinality(Types("tool_end"))
        /\ \A i \in Types("tool_start") :
              Cardinality(EndsOf(events[i].content, i)) = 1
        /\ \A j \in Types("tool_end") :
              \E i \in Types("tool_start") :
                  i < j /\ events[i].content = events[j].content.id

\* C5: the history of the context that update_context prepares for the
\* updated_context event, and the history an updated_context event carries,
\* hold no entry of role system, whatever the incoming context was.
C5_NoSystemInUpdatedContext ==
    /\ (Terminated /\ IsConversationComplete(status)) =>
           \A k \in 1..Len(context) : context[k] # "system"
    /\ \A i \in Types("updated_context") :
           \A k \in 1..Len(events[i].content.history) :
               events[i].content.history[k] # "system"

\* C6: the number of iterations started never exceeds state.max_iterations,
\* also after it was recomputed from a plan, and a loop left at the bound
\* without a clarify/complete status has emitted an error event.
C6_IterationWithinBudget ==
    /\ iteration <= max_iterations
    /\ (pc = "finish" /\ ~has_error /\ status = NoStatus /\ iteration >= max_iterations)
          => HasEvent("error")

\* C7: state.max_iterations never decreases during a request.
C7_MaxIterationsMonotone ==
    [][max_iterations' >= max_iterations]_vars

\* The continuation messages that list tool results: one is appended per
\* iteration that ended with status continue after its tools were run.
ContinuationsWithTools ==
    { k \in 1..Len(messages) :
        messages[k].kind = "continuation" /\ messages[k].content # <<>> }

OverrunScenario ==
    /\ Done
    /\ current_plan = NoPlan
    /\ max_iterations = default_max_iterations
    /\ Cardinality(ContinuationsWithTools) = default_max_iterations

\* C9: when the model answers status continue with a tool call in every
\* iteration and max_iterations stays 3, exactly three LLM streams are
\* opened and the final event is the error naming the bound (3).
C9_OverrunEndsWithBoundError ==
    OverrunScenario =>
        /\ streams = default_max_iterations
        /\ Last(events).type = "error"
        /\ Last(events).content = <<"max_iterations", default_max_iterations>>

\* The tool the dispatcher takes next from the queue is not registered.
UnregisteredToolNext ==
    /\ pc = "tools"
    /\ tool_index <= Len(tool_queue)
    /\ ~GetTool(tool_queue[tool_index].name)

\* C10: a queued ToolUse naming a tool that is not registered is reported as
\* a tool_end event carrying an error for its id and recorded in
\* tool_results; no tool runs and the request is not terminated.
C10_UnknownToolIsRecoverable ==
    [][UnregisteredToolNext =>
         /\ Last(events').type = "tool_end"
         /\ Last(events').content = ToolEndEvent(tool_queue[tool_index], "error").content
         /\ tool_results' = Append(tool_results, Last(events').content)
         /\ Types("tool_start")' = Types("tool_start")
         /\ pc' = "tools"]_vars

\* C8: when every LLM stream ends and every tool call returns, every
\* process_message call eventually terminates, whatever the model answers,
\* also when it answers status continue with another plan in every iteration.
C8_EveryRequestTerminates == <>Terminated

\* ------------------------------------------------------ tool dispatching

\* C11: whatever execute_tool does (a raise included), the dispatcher yields
\* one tool_end event carrying the id of the tool call, appends its content to
\* tool_results, yields no event of type error and goes on with the queue
\* (then the next iteration): the exception does not leave the dispatcher.
C11_ToolFailureIsToolEnd ==
    [][pc = "tool_running" =>
         /\ Len(events') = Len(events) + 1
         /\ Last(events').type = "tool_end"
         /\ Last(events').content.id = tool_queue[tool_index].id
         /\ Last(events).type = "tool_start"
         /\ Last(events).content = Last(events').content.id
         /\ tool_results' = Append(tool_results, Last(events').content)
         /\ pc' = "tools"]_vars

\* A tool raised and the next iteration's LLM stream was opened with the
\* error in the continuation message, no error event having been emitted.
C11_Witness ==
    /\ streams = 2
    /\ pc = "stream"
    /\ events # <<>>
    /\ ~HasEvent("error")
    /\ Last(events).type = "tool_end"
    /\ Last(events).content.kind = "error"
    /\ Last(messages).kind = "continuation"
    /\ Last(messages).content = <<Last(events).content>>

\* --------------------------------------------------- the end of an iteration

\* The stream of the iteration ended without an error event and the status is st.
StreamEndedWith(st) ==
    /\ pc = "after_stream"
    /\ ~has_error
    /\ status = st

\* The loop was left after such a stream.
LoopLeftWith(st) ==
    /\ pc = "finish"
    /\ ~has_error
    /\ status = st

\* The step yields exactly one more event, of type t.
YieldsOne(t) ==
    /\ Len(events') = Len(events) + 1
    /\ Last(events').type = t

\* C12: when a stream ends with status complete while tool_queue is not
\* empty, no queued tool is dispatched (no event is emitted for them), no
\* further iteration starts, and the request ends normally with
\* updated_context as its final event.
C12_CompleteDiscardsQueue ==
    [][/\ (StreamEndedWith("complete") /\ tool_queue # <<>>) =>
             /\ pc' = "finish"
             /\ events' = events
             /\ streams' = streams
       /\ (LoopLeftWith("complete") /\ tool_queue # <<>>) =>
             /\ pc' = "done"
             /\ YieldsOne("updated_context")]_vars

\* C13: when a stream with no validation error ends with status clarify or
\* complete, no further LLM stream is opened and the request ends with
\* exactly one updated_context event and no error event.
C13_TerminalStatusEndsWithContext ==
    [][\A st \in {"clarify", "complete"} :
        /\ StreamEndedWith(st) =>
             /\ pc' = "finish"
             /\ events' = events
             /\ streams' = streams
        /\ LoopLeftWith(st) =>
             /\ pc' = "done"
             /\ YieldsOne("updated_context")
             /\ ~HasEvent("updated_context")
             /\ ~HasEvent("error")]_vars

\* Once the loop is left nothing is dispatched, composed or opened any more.
NothingAfterLoop ==
    pc \in {"finish", "done", "raised"} =>
        /\ pc' \in {"done", "raised"}
        /\ messages' = messages
        /\ streams' = streams
        /\ tool_results' = tool_results
        /\ Len(events') <= Len(events) + 1
        /\ Len(events') > Len(events) => Last(events').type \in {"error", "updated_context"}

\* The step that follows a stream that ended with no status: the "No STATUS
\* set" error is yielded and the loop is left, with no tool dispatched, no
\* continuation message and no further stream.
MissingStatusStep ==
    /\ events' = Append(events, Event("error", <<"no_status">>))
    /\ pc' = "finish"
    /\ messages' = messages
    /\ streams' = streams
    /\ tool_results' = tool_results

\* C14, as stated: if state.status is unset when an iteration's LLM stream
\* ends, the agent emits the "No STATUS set" error, dispatches none of the
\* queued tools, appends no continuation message and opens no further stream.
C14_MissingStatusIsReported ==
    [][/\ (pc = "after_stream" /\ status = NoStatus) => MissingStatusStep
       /\ NothingAfterLoop]_vars

\* C14, amended: the same when the stream yielded no error event; after an
\* error event the loop is left without the "No STATUS set" error.
C14_MissingStatusIsReportedUnlessError ==
    [][/\ StreamEndedWith(NoStatus) => MissingStatusStep
       /\ (pc = "after_stream" /\ status = NoStatus /\ has_error) =>
             (pc' = "finish" /\ events' = events /\ messages' = messages
                /\ streams' = streams /\ tool_results' = tool_results)
       /\ NothingAfterLoop]_vars

\* A request that ended on a missing status with a tool still queued.
C14_Witness ==
    /\ Done
    /\ ~has_error
    /\ status = NoStatus
    /\ tool_queue # <<>>
    /\ streams = 2
    /\ \E i \in Types("error") : events[i].content = <<"no_status">>
    /\ ~HasEvent("tool_start")

\* ------------------------------------------------ validation of payloads

\* C22: whenever state.current_plan is set it satisfies
\* 1 <= current_step <= total_steps and total_steps = |steps| (a payload
\* violating this is never stored), so that steps[current_step - 1] of the
\* final summary is always in range.
C22_StoredPlanIsConsistent ==
    current_plan # NoPlan =>
        /\ 1 <= current_plan.current_step
        /\ current_plan.current_step <= current_plan.total_steps
        /\ current_plan.total_steps = current_plan.nsteps
        /\ ~StepIndexRaises(current_plan)

\* The members of StatusEnum.
StatusEnum == {"continue", "clarify", "complete"}

\* C23: whenever state.status is set its value is one of continue, clarify,
\* complete, and a stream that ends with any other status value ends the
\* request: the loop runs no tool and no further iteration on it.
C23_StatusIsOfTheEnum ==
    [][/\ status' # NoStatus => status' \in StatusEnum
       /\ (pc = "after_stream" /\ status \notin StatusEnum \cup {NoStatus}) =>
             pc' = "finish"]_vars

\* ------------------------------------------------------- the SSE stream

\* OpenAIService._format_chunk
FormatChunk(data) == [done |-> FALSE, data |-> data]

\* The literal chunk "data: [DONE]\n\n".
DoneChunk == [done |-> TRUE]

\* OpenAIService.process_chat_stream: the chunks yielded so far. One chunk
\* per outbound event of the agent; when process_message returns, the [DONE]
\* chunk; when it raises, the chunk of the `except` branch.
ChatStream ==
    [i \in 1..Len(events) |-> FormatChunk(events[i])]
    \o (IF pc = "done" THEN <<DoneChunk>>
        ELSE IF pc = "raised" THEN <<FormatChunk(Event("error", <<"exception">>))>>
        ELSE <<>>)

\* C25: every SSE stream of process_chat_stream ends with the chunk
\* "data: [DONE]\n\n", also when the agent raised in the middle of the stream.
C25_StreamEndsWithDone ==
    Terminated => Last(ChatStream).done

\* ----------------------------------------------------- the outgoing context

\* The conversation_summary the client sent: it holds nothing of this request.
IncomingSummary == [latest |-> 0, task |-> FALSE, status |-> NoStatus]

\* The conversation_summary of the request's context: set_summary is called
\* by update_context alone, after create_latest_summary returned.
ContextSummary ==
    IF pc = "done" /\ IsConversationComplete(status)
    THEN CreateLatestSummary(summaries, current_plan, status)
    ELSE IncomingSummary

\* C26: when at least one summary tag was received, the summary of the
\* context of a request that ended normally is state.latest_summary alone,
\* with neither the plan's task nor the status joined to it.
C26_ReceivedSummaryIsContextSummary ==
    (Terminated /\ IsConversationComplete(status) /\ summaries > 0) =>
        ContextSummary = [latest |-> summaries, task |-> FALSE, status |-> NoStatus]

\* C27: the prompt of every iteration ends with the format instructions,
\* preceded by the human message that holds the user input of the request,
\* and holds the user input in no other message.
C27_PromptHoldsUserInput ==
    pc = "stream" =>
        /\ Len(prompt) >= 2
        /\ Last(prompt) = Message("system", "format", <<>>)
        /\ prompt[Len(prompt) - 1] = UserInput
        /\ Cardinality({ k \in 1..Len(prompt) : prompt[k].kind = "input" }) = 1

\* The ai messages handle_full_text_tag added to the state.
FullTexts == { k \in 1..Len(messages) : messages[k].kind = "text" }

C29_StatusUnsetAtIterationStart ==
    pc = "loop" => status = NoStatus

\* The loop is back at its test after an iteration that ended with a status
\* and ran a tool.
C29_Witness ==
    /\ pc = "loop"
    /\ iteration = 1
    /\ status = NoStatus
    /\ Last(messages).kind = "continuation"
    /\ HasEvent("tool_end")

\* C30: when an iteration after the first starts, state.tool_queue and
\* state.tool_results are both empty, whatever the status of the previous
\* iteration was.
C30_QueueAndResultsEmptyAtIterationStart ==
    [][(streams' # streams /\ streams >= 1) =>
          (tool_queue = <<>> /\ tool_results = <<>>)]_vars

\* ------------------------------------- the order of events in an iteration
(***************************************************************************)
(* OrderSpec runs the same loop on streams of up to MaxOrderLen tag events *)
(* that all pass validation (reasoning, text, a tool call of a registered  *)
(* tool, a status continue or complete), so that one iteration can hold    *)
(* stream events, tool events and a continuation message.                  *)
(***************************************************************************)

OrderInit ==
    /\ Init
    /\ incoming = <<>>

OrderReasoningTag ==
    /\ ~section_open
    /\ DeliverWithin(MaxOrderLen, <<Event("reasoning", "notification")>>)
    /\ UNCHANGED <<messages, status, current_plan, tool_queue, section_open, uuids,
                   summaries>>
    /\ HandlerFrame

OrderTextTag ==
    /\ DeliverWithin(MaxOrderLen, <<Event("text", "token")>>)
    /\ section_open' = TRUE
    /\ UNCHANGED <<messages, status, current_plan, tool_queue, uuids, summaries>>
    /\ HandlerFrame

OrderToolTag ==
    /\ ~section_open
    /\ DeliverWithin(MaxOrderLen, <<>>)
    /\ tool_queue' = Append(tool_queue, [id |-> Uuid(uuids + 1), name |-> "math_evaluation"])
    /\ uuids' = uuids + 1
    /\ UNCHANGED <<messages, status, current_plan, section_open, summaries>>
    /\ HandlerFrame

OrderStatusTag ==
    /\ ~section_open
    /\ DeliverWithin(MaxOrderLen, <<>>)
    /\ \E s \in {"continue", "complete"} : status' = s
    /\ UNCHANGED <<messages, current_plan, tool_queue, section_open, uuids, summaries>>
    /\ HandlerFrame

OrderNext ==
    \/ StartIteration
    \/ LeaveLoop
    \/ OrderReasoningTag
    \/ OrderTextTag
    \/ handle_full_text_tag
    \/ OrderToolTag
    \/ OrderStatusTag
    \/ handle_debug_tag
    \/ ReturnOnMissingStatus
    \/ ReturnOnComplete
    \/ Continue
    \/ ToolStart
    \/ ToolEnd
    \/ ToolQueueDone
    \/ Finish
    \/ FinishRaises

OrderSpec == OrderInit /\ [][OrderNext]_vars

\* The positions of the events of one of the types T in the sequence ev.
EventsOf(ev, T) == { i \in 1..Len(ev) : ev[i].type \in T }

StreamEventTypes == {"reasoning", "text"}
ToolEventTypes == {"tool_start", "tool_end"}

\* The continuation messages composed so far.
Continuations(ms) == { k \in 1..Len(ms) : ms[k].kind = "continuation" }

\* C15: within an iteration the reasoning and text events of the LLM stream
\* are all emitted before the first tool_start/tool_end event, and the tool
\* events are all emitted before the continuation message is composed and
\* before the next LLM stream is opened: while the stream is read no tool
\* event is emitted, while the tools run no reasoning or text event is
\* emitted, the continuation message is composed in a step that ends the
\* iteration and emits nothing, and a stream is opened only from the loop test.
C15_StreamThenToolsThenContinuation ==
    [][/\ pc \in {"stream", "after_stream"} =>
             /\ EventsOf(events', ToolEventTypes) = EventsOf(events, ToolEventTypes)
             /\ pc' \in {"stream", "after_stream", "tools", "loop", "finish"}
             /\ pc = "stream" => pc' \in {"stream", "after_stream"}
       /\ pc \in {"tools", "tool_running"} =>
             /\ EventsOf(events', StreamEventTypes) = EventsOf(events, StreamEventTypes)
             /\ pc' \in {"tools", "tool_running", "loop", "finish"}
       /\ Continuations(messages') # Continuations(messages) =>
             /\ pc' = "loop"
             /\ events' = events
             /\ Len(messages') = Len(messages) + 1
       /\ streams' # streams =>
             /\ pc = "loop"
             /\ pc' = "stream"
             /\ events' = events]_vars

\* The second stream is open after an iteration that emitted a text event,
\* then ran a tool, then composed the continuation message with its result.
C15_Witness ==
    /\ pc = "stream"
    /\ streams = 2
    /\ Len(events) = 3
    /\ events[1].type \in StreamEventTypes
    /\ events[2].type = "tool_start"
    /\ events[3].type = "tool_end"
    /\ Last(messages).kind = "continuation"
    /\ Last(messages).content = <<events[3].content>>

\* ------------------------------------------------ the continuation message

\* C32: the continuation message composed after an iteration lists the
\* results of exactly the tools dispatched in that iteration (those of its
\* tool_queue), once each and in queue order, and no result of an earlier
\* iteration.
C32_ContinuationListsThisIterationsTools ==
    [][Continuations(messages') # Continuations(messages) =>
         /\ Len(Last(messages').content) = Len(tool_queue)
         /\ \A i \in 1..Len(tool_queue) :
               Last(messages').content[i].id = tool_queue[i].id]_vars

\* -------------------------------------------------- the order of dispatch

\* The tool lifecycle events emitted so far, in order.
ToolEvents == SelectSeq(events, LAMBDA e : e.type \in ToolEventTypes)

\* C38: tool dispatch is sequential and in queue order.  The lifecycle events
\* alternate start, end, each end carrying the id of the start before it (at
\* most one tool is in flight); and once the queue t1..tn is exhausted, the
\* last 2n lifecycle events are start(t1), end(t1), ..., start(tn), end(tn)
\* and the last n entries of tool_results are those of t1..tn in that order.
C38_DispatchIsSequentialInQueueOrder ==
    /\ \A j \in 1..Len(ToolEvents) :
          IF j % 2 = 1
          THEN ToolEvents[j].type = "tool_start"
          ELSE /\ ToolEvents[j].type = "tool_end"
               /\ ToolEvents[j].content.id = ToolEvents[j - 1].content
    /\ (pc = "tools" /\ tool_index > Len(tool_queue)) =>
          LET n == Len(tool_queue)
              m == Len(ToolEvents)
              r == Len(tool_results)
          IN  /\ m >= 2 * n
              /\ r >= n
              /\ \A i \in 1..n :
                    /\ ToolEvents[m - 2 * n + 2 * i - 1] = Event("tool_start", tool_queue[i].id)
                    /\ ToolEvents[m - 2 * n + 2 * i].type = "tool_end"
                    /\ ToolEvents[m - 2 * n + 2 * i].content.id = tool_queue[i].id
                    /\ tool_results[r - n + i].id = tool_queue[i].id

\* A queue of two tools has been dispatched to its end.
C38_Witness ==
    /\ pc = "tools"
    /\ tool_index > Len(tool_queue)
    /\ Len(tool_queue) = 2
    /\ tool_queue[1].id # tool_queue[2].id
    /\ Len(tool_results) = 2

\* ------------------------------------------ validation failures in a stream
(***************************************************************************)
(* ErrSpec is OrderSpec with payloads that fail validation: a stream of up *)
(* to MaxOrderLen tag events can hold a tool call, a status continue and a *)
(* plan, reasoning, tool or status payload that is rejected.               *)
(***************************************************************************)

\* The payload of a plan, reasoning, tool or status event is rejected by
\* model_validate_json: the handler returns the error event.
OrderInvalidPayload ==
    /\ ~section_open
    /\ \E tag \in {"plan", "reasoning", "tool", "status"} :
         DeliverWithin(MaxOrderLen, ValidationFailure(tag))
    /\ UNCHANGED <<messages, status, current_plan, tool_queue, section_open, uuids,
                   summaries>>
    /\ HandlerFrame

ErrNext ==
    \/ StartIteration
    \/ LeaveLoop
    \/ OrderReasoningTag
    \/ OrderTextTag
    \/ handle_full_text_tag
    \/ OrderToolTag
    \/ OrderStatusTag
    \/ OrderInvalidPayload
    \/ handle_debug_tag
    \/ ReturnOnError
    \/ ReturnOnMissingStatus
    \/ ReturnOnComplete
    \/ Continue
    \/ ToolStart
    \/ ToolEnd
    \/ ToolQueueDone
    \/ Finish
    \/ FinishRaises

ErrSpec == OrderInit /\ [][ErrNext]_vars

\* A payload failed validation in the request.
ValidationFailed ==
    \E i \in Types("error") : events[i].content[1] = "validation"

\* C31: once a plan, reasoning, tool or status payload has failed validation
\* the request ends in that iteration: no tool is dispatched, no continuation
\* message is appended, no further LLM stream is opened, and the end of the
\* stream leaves the loop, also when the response carried a valid status
\* continue.
C31_ValidationFailureEndsRequest ==
    [][ValidationFailed =>
         /\ EventsOf(events', ToolEventTypes) = EventsOf(events, ToolEventTypes)
         /\ tool_results' = tool_results
         /\ Continuations(messages') = Continuations(messages)
         /\ streams' = streams
         /\ pc = "after_stream" => pc' = "finish"
         /\ pc = "finish" => pc' \in {"done", "raised"}]_vars

\* A request ended in its first iteration on a rejected payload, although
\* the response queued a tool and carried the status continue.
C31_Witness ==
    /\ Done
    /\ ValidationFailed
    /\ status = "continue"
    /\ tool_queue # <<>>
    /\ streams = 1
    /\ ~HasEvent("tool_start")
    /\ Continuations(messages) = {}

\* ============================================================ TagProcessor
(***************************************************************************)
(* TagProcessor.process_stream on one token stream, character by           *)
(* character. Strings are sequences of one-character strings. The LLM      *)
(* response is a text; the stream delivers it in tokens, each any          *)
(* non-empty prefix of what is left, so every chunking of the text is a    *)
(* behaviour of TagSpec.                                                   *)
(***************************************************************************)

\* Sections of a generated response.
MaxSections == 2

Sentinel == "§"
Newline == "\n"
\* The characters str.strip() removes, among those of the model's texts.
Whitespace == {" ", Newline}

\* Tag values (models/tags.py) and the processor's fallback tag.
PLAN == <<"p", "l", "a", "n">>
TEXT == <<"t", "e", "x", "t">>
FULL_TEXT == <<"f", "u", "l", "l", "_", "t", "e", "x", "t">>
STATUS == <<"s", "t", "a", "t", "u", "s">>
DEBUG == <<"d", "e", "b", "u", "g">>
REASONING == <<"r", "e", "a", "s", "o", "n", "i", "n", "g">>
UNKNOWN == <<"u", "n", "k", "n", "o", "w", "n">>
\* A tag name the LLM may write that is no member of Tag and has no TagConfig.
NOTE == <<"n">>

\* ConversationManager._create_tag_processor: the modes of the configured
\* tags; TagConfig() (BUFFER, no buffer_tag) for any other tag.
TagConfigOf(tag) ==
    IF tag = TEXT
    THEN [mode |-> "STREAM_AND_BUFFER", buffer_tag |-> FULL_TEXT]
    ELSE [mode |-> "BUFFER", buffer_tag |-> <<>>]

IsStreamingConfig(config) == config.mode \in {"STREAM", "STREAM_AND_BUFFER"}
IsBufferingConfig(config) == config.mode \in {"BUFFER", "STREAM_AND_BUFFER"}

CreateResult(tag, content) == [tag |-> tag, content |-> content]

\* ------------------------------------------------------- string functions

Contains(s, c) == \E i \in 1..Len(s) : s[i] = c

IndexOf(s, c) == CHOOSE i \in 1..Len(s) : s[i] = c /\ \A j \in 1..(i - 1) : s[j] # c

\* s.split(c, 1) of a string that holds c: parts[0] and parts[1].
SplitHead(s, c) == SubSeq(s, 1, IndexOf(s, c) - 1)
SplitTail(s, c) == SubSeq(s, IndexOf(s, c) + 1, Len(s))

RECURSIVE LStrip(_)
LStrip(s) ==
    IF s # <<>> /\ Head(s) \in Whitespace THEN LStrip(Tail(s)) ELSE s

RECURSIVE RStrip(_)
RStrip(s) ==
    IF s # <<>> /\ s[Len(s)] \in Whitespace THEN RStrip(SubSeq(s, 1, Len(s) - 1)) ELSE s

\* str.strip()
Strip(s) == RStrip(LStrip(s))

\* ------------------------------------------------- the processor's methods

\* The fields _process_token and _flush_buffers work on.
Fields == [state |-> state, current_tag |-> current_tag,
           content_buffer |-> content_buffer, tag_buffer |-> tag_buffer]

\* The first truthy of config.buffer_tag, current_tag, "unknown".
BufferTag(config, tag) ==
    IF config.buffer_tag # <<>> THEN config.buffer_tag
    ELSE IF tag # <<>> THEN tag
    ELSE UNKNOWN

\* _flush_buffers: the results it returns ...
FlushResults(p) ==
    IF (p.content_buffer # <<>> \/ p.current_tag # <<>>)
       /\ (Strip(p.content_buffer) # <<>> \/ p.current_tag # <<>>)
       /\ IsBufferingConfig(TagConfigOf(p.current_tag))
    THEN <<CreateResult(BufferTag(TagConfigOf(p.current_tag), p.current_tag),
                        Strip(p.content_buffer))>>
    ELSE <<>>

\* ... and the fields it leaves.
Flushed(p) == [p EXCEPT !.content_buffer = <<>>, !.current_tag = <<>>]

\* The empty streamed event that announces a section of a streaming tag.
OpeningResults(tag) ==
    IF IsStreamingConfig(TagConfigOf(tag)) THEN <<CreateResult(tag, <<>>)>> ELSE <<>>

\* _process_token in state LOOKING_FOR_TAG: fields and results afterwards.
LookingForTag(p, token) ==
    IF Head(token) = Sentinel
    THEN [fields  |-> [Flushed(p) EXCEPT !.state = "READING_TAG",
                                         !.tag_buffer = Tail(token)],
          results |-> FlushResults(p)]
    ELSE [fields  |-> [p EXCEPT !.content_buffer = @ \o token],
          results |-> <<>>]

\* _process_token in state READING_TAG.
ReadingTag(p, token) ==
    IF Contains(token, Newline)
    THEN [fields  |-> [p EXCEPT !.current_tag = Strip(p.tag_buffer \o SplitHead(token, Newline)),
                                !.tag_buffer = <<>>,
                                !.state = "READING_CONTENT",
                                !.content_buffer = @ \o SplitTail(token, Newline)],
          results |-> OpeningResults(Strip(p.tag_buffer \o SplitHead(token, Newline)))]
    ELSE [fields  |-> [p EXCEPT !.tag_buffer = @ \o token],
          results |-> <<>>]

\* _process_token in state READING_CONTENT.
ReadingContent(p, token) ==
    IF Contains(token, Sentinel)
    THEN [fields  |-> [Flushed(p) EXCEPT !.state = "READING_TAG",
                                         !.tag_buffer = SplitTail(token, Sentinel)],
          results |-> FlushResults([p EXCEPT !.content_buffer = @ \o SplitHead(token, Sentinel)])]
    ELSE [fields  |-> [p EXCEPT !.content_buffer = @ \o token],
          results |-> IF IsStreamingConfig(TagConfigOf(p.current_tag))
                      THEN <<CreateResult(p.current_tag, token)>>
                      ELSE <<>>]

\* _process_token
ProcessToken(p, token) ==
    CASE p.state = "LOOKING_FOR_TAG" -> LookingForTag(p, token)
      [] p.state = "READING_TAG"     -> ReadingTag(p, token)
      [] p.state = "READING_CONTENT" -> ReadingContent(p, token)

\* debug_content = token, for debug_content += token.
DebugAppend_Assign(debug, token) == token

\* self.debug_content += token
DebugAppend(debug, token) == debug \o token

\* The debug event of the end of the stream, when there is debug content.
DebugResults(debug) ==
    IF debug # <<>> THEN <<CreateResult(DEBUG, debug)>> ELSE <<>>

\* process_stream on a whole token sequence: the events it yields.
RECURSIVE ProcessStreamFrom(_, _, _)
ProcessStreamFrom(p, debug, tokens) ==
    IF tokens = <<>>
    THEN FlushResults(p) \o DebugResults(debug)
    ELSE ProcessToken(p, Head(tokens)).results
         \o ProcessStreamFrom(ProcessToken(p, Head(tokens)).fields,
                              DebugAppend(debug, Head(tokens)), Tail(tokens))

ResetFields == [state |-> "LOOKING_FOR_TAG", current_tag |-> <<>>,
                content_buffer |-> <<>>, tag_buffer |-> <<>>]

ProcessStream(tokens) == ProcessStreamFrom(ResetFields, <<>>, tokens)

\* ---------------------------------------------------------- the responses

\* Section contents: none, a JSON payload, a line of text.
Contents == { <<>>, <<"{", "}">>, <<"h", "i", Newline>> }

Sections == [tag : {PLAN, TEXT, NOTE}, content : Contents]

\* The line-lead rendering of a section: sentinel, tag name, newline, content.
RenderSection(sec) == <<Sentinel>> \o sec.tag \o <<Newline>> \o sec.content

RECURSIVE Render(_)
Render(secs) ==
    IF secs = <<>> THEN <<>> ELSE RenderSection(Head(secs)) \o Render(Tail(secs))

\* The tagged responses: one to MaxSections sections.
Responses == UNION { [1..n -> Sections] : n \in 1..MaxSections }

\* The bracketed form of the format instructions: [PLAN]{}[/PLAN].
BracketedPlan ==
    <<"[", "P", "L", "A", "N", "]", "{", "}", "[", "/", "P", "L", "A", "N", "]">>

\* ------------------------------------------------------------- the stream

\* A token stream is about to deliver a tagged response, or the bracketed plan.
TagInit ==
    /\ AgentInit
    /\ incoming = <<>>
    /\ state = "LOOKING_FOR_TAG"
    /\ current_tag = <<>>
    /\ content_buffer = <<>>
    /\ tag_buffer = <<>>
    /\ debug_content = <<>>
    /\ \/ /\ response \in Responses
          /\ text = Render(response)
       \/ /\ response = <<>>
          /\ text = BracketedPlan
    /\ rest = text
    /\ yielded = <<>>
    /\ stream_ended = FALSE
    /\ ConcurrentIdle

AgentFrame ==
    UNCHANGED <<pc, context, incoming, messages, initial_message_count, iteration,
                max_iterations, status, current_plan, tool_queue, tool_results,
                tool_index, has_error, stream_len, section_open, streams, uuids,
                summaries, prompt, events>>

\* async for token in token_stream: the next token is any non-empty prefix
\* of what is left; debug_content += token; the results of _process_token
\* are yielded.
ReadToken(token) ==
    /\ ~stream_ended
    /\ debug_content' = DebugAppend(debug_content, token)
    /\ state' = ProcessToken(Fields, token).fields.state
    /\ current_tag' = ProcessToken(Fields, token).fields.current_tag
    /\ content_buffer' = ProcessToken(Fields, token).fields.content_buffer
    /\ tag_buffer' = ProcessToken(Fields, token).fields.tag_buffer
    /\ yielded' = yielded \o ProcessToken(Fields, token).results
    /\ rest' = SubSeq(rest, Len(token) + 1, Len(rest))
    /\ UNCHANGED <<response, text, stream_ended, concurrent>>
    /\ AgentFrame

TokenLookingForTag ==
    /\ state = "LOOKING_FOR_TAG"
    /\ \E n \in 1..Len(rest) : ReadToken(SubSeq(rest, 1, n))

TokenReadingTag ==
    /\ state = "READING_TAG"
    /\ \E n \in 1..Len(rest) : ReadToken(SubSeq(rest, 1, n))

TokenReadingContent ==
    /\ state = "READING_CONTENT"
    /\ \E n \in 1..Len(rest) : ReadToken(SubSeq(rest, 1, n))

\* EndOfStream without the `finally: self.reset()`.
EndOfStream_NoReset ==
    /\ ~stream_ended
    /\ rest = <<>>
    /\ yielded' = yielded \o FlushResults(Fields) \o DebugResults(debug_content)
    /\ current_tag' = <<>>
    /\ content_buffer' = <<>>
    /\ stream_ended' = TRUE
    /\ UNCHANGED <<state, tag_buffer, debug_content>>
    /\ UNCHANGED <<response, text, rest, concurrent>>
    /\ AgentFrame

\* The token stream is exhausted: the buffers are flushed, the debug event is
\* yielded, and `finally` resets the processor.
EndOfStream ==
    /\ ~stream_ended
    /\ rest = <<>>
    /\ yielded' = yielded \o FlushResults(Fields) \o DebugResults(debug_content)
    /\ state' = "LOOKING_FOR_TAG"
    /\ current_tag' = <<>>
    /\ content_buffer' = <<>>
    /\ tag_buffer' = <<>>
    /\ debug_content' = <<>>
    /\ stream_ended' = TRUE
    /\ UNCHANGED <<response, text, rest, concurrent>>
    /\ AgentFrame

TagNext ==
    \/ TokenLookingForTag
    \/ TokenReadingTag
    \/ TokenReadingContent
    \/ EndOfStream

TagSpec == TagInit /\ [][TagNext]_vars

\* ------------------------------------------------ the events of a stream

IsNotDebug(e) == e.tag # DEBUG
IsBuffered(e) == e.tag \notin {DEBUG, TEXT}

\* The events of a stream without its closing debug event.
NonDebug(ev) == SelectSeq(ev, IsNotDebug)
\* The buffered events of a stream: neither streamed text nor debug.
Buffered(ev) == SelectSeq(ev, IsBuffered)

\* The buffered event a section is to produce when it closes.
BufferedEventOf(sec) ==
    CreateResult(BufferTag(TagConfigOf(sec.tag), sec.tag), Strip(sec.content))

\* The contents of the streamed text events that directly precede
\* position j + 1, joined.
RECURSIVE StreamedUpTo(_, _)
StreamedUpTo(ev, j) ==
    IF j = 0 \/ ev[j].tag # TEXT THEN <<>>
    ELSE StreamedUpTo(ev, j - 1) \o ev[j].content

\* C16: chunking invariance: for a valid tagged response every split of its
\* text into tokens yields the same events as the text fed as one token.
C16_ChunkingInvariance ==
    (stream_ended /\ response # <<>>) => yielded = ProcessStream(<<text>>)

\* C17: the contents of the streamed text events of a text section, joined,
\* equal the content of the full_text event emitted when the section closes.
C17_StreamedTextEqualsFullText ==
    \A j \in 1..Len(yielded) :
        yielded[j].tag = FULL_TEXT => StreamedUpTo(yielded, j - 1) = yielded[j].content

\* C18: the debug event emitted at the end of a stream holds the exact
\* concatenation of all tokens received (while the stream is read,
\* debug_content holds every character delivered so far), and it is the
\* last and only debug event.
C18_DebugHoldsWholeStream ==
    /\ ~stream_ended => debug_content \o rest = text
    /\ stream_ended =>
         /\ yielded # <<>>
         /\ Last(yielded) = CreateResult(DEBUG, text)
         /\ Cardinality({ j \in 1..Len(yielded) : yielded[j].tag = DEBUG }) = 1

\* A stream of a two-section response ended after tokens of several sizes
\* and yielded events of the sections before the debug event.
C18_Witness ==
    /\ stream_ended
    /\ Len(response) = 2
    /\ Len(yielded) >= 4
    /\ Last(yielded).tag = DEBUG
    /\ Last(yielded).content = text

\* C19: when the stream ends while a section is open, the section is closed
\* implicitly: the last buffered event of the stream is the one buffered
\* event of the final section and holds all of its content.
C19_UnclosedSectionIsFlushed ==
    (stream_ended /\ response # <<>>) =>
        /\ Buffered(yielded) # <<>>
        /\ Last(Buffered(yielded)) = BufferedEventOf(Last(response))

\* C20: the bracketed form [PLAN]{}[/PLAN], however it is split into
\* tokens (the opening marker split across tokens included), yields exactly
\* one event, of tag plan, whose content is the JSON between the markers.
C20_BracketedPlanIsParsed ==
    (stream_ended /\ text = BracketedPlan) =>
        NonDebug(yielded) = <<CreateResult(PLAN, <<"{", "}">>)>>

\* -------------------------------------------------- the closing of sections

\* C33: a new opening marker closes the open section first: the buffered
\* events of a stream are one per opened section, in the order in which the
\* sections were opened, also when two sections carry the same tag name.
C33_OpeningMarkerClosesOpenSection ==
    (stream_ended /\ response # <<>>) =>
        /\ Len(Buffered(yielded)) = Len(response)
        /\ \A i \in 1..Len(response) :
              Len(Buffered(yielded)) >= i =>
                  Buffered(yielded)[i] = BufferedEventOf(response[i])

\* The characters of the text delivered so far.
Delivered == Len(text) - Len(rest)

\* The plan sections that are closed: the stream ended, or the sentinel of
\* the next section has been delivered.
ClosedPlans ==
    { i \in 1..Len(response) :
        /\ response[i].tag = PLAN
        /\ stream_ended \/ Delivered > Len(Render(SubSeq(response, 1, i))) }

\* The plan events yielded so far.
PlanEvents == SelectSeq(yielded, LAMBDA e : e.tag = PLAN)

\* The closed plan sections in the order of the response.
RECURSIVE ClosedPlanEvents(_)
ClosedPlanEvents(n) ==
    IF n = 0 THEN <<>>
    ELSE ClosedPlanEvents(n - 1)
         \o (IF n \in ClosedPlans THEN <<BufferedEventOf(response[n])>> ELSE <<>>)

\* C34: for the BUFFER tag plan no event is emitted while its section is
\* open and exactly one when it closes, carrying the whole content of the
\* section (surrounding whitespace aside), an empty section included: at
\* every point of the stream the plan events are those of the closed plan
\* sections.
C34_BufferedTagYieldsOneEventOnClose ==
    response # <<>> => PlanEvents = ClosedPlanEvents(Len(response))

\* ------------------------------------------------- sections of other tags

\* Tag(event['tag']) raises ValueError, which _process_llm_response answers
\* with an "Invalid tag" error event: the tag is no member of Tag (of the
\* members, the streams of the model can name plan, reasoning, text,
\* full_text, status and debug).
InvalidTag(tag) == tag \notin {PLAN, REASONING, TEXT, FULL_TEXT, STATUS, DEBUG}

\* a occurs in b as a contiguous run of characters.
IsInfix(a, b) == \E k \in 0..(Len(b) - Len(a)) : SubSeq(b, k + 1, k + Len(a)) = a

\* The sections of a response whose tag is not recognized.
Unrecognized(resp) == { i \in 1..Len(resp) : resp[i].tag = NOTE }

\* C21: a section whose tag name is not recognized produces no event of its
\* own: no event of the stream carries its tag, its marker and content are
\* held by the content of a buffered event (no character is dropped), and no
\* event of the stream carries a tag the agent answers with an error event.
C21_UnrecognizedSectionPassesThrough ==
    (stream_ended /\ Unrecognized(response) # {}) =>
        /\ \A j \in 1..Len(yielded) : yielded[j].tag # NOTE
        /\ \A i \in Unrecognized(response) :
              \E j \in 1..Len(yielded) :
                  /\ IsBuffered(yielded[j])
                  /\ IsInfix(Strip(RenderSection(response[i])), yielded[j].content)
        /\ \A j \in 1..Len(yielded) : ~InvalidTag(yielded[j].tag)

\* ------------------------------------------ one processor, several streams
(***************************************************************************)
(* ReuseSpec: the TagProcessor that process_message creates is handed to   *)
(* process_stream once per iteration of _conversation_loop. A stream ends  *)
(* normally, or process_stream is left early: the token stream raises, or  *)
(* the generator is closed at one of its yields. `streams` counts the      *)
(* streams opened after the first.                                         *)
(***************************************************************************)

\* Streams opened after the first one.
MaxReuse == 2

\* process_stream is left before the end of the token stream (an exception
\* of the token stream, or GeneratorExit at a yield): nothing more is
\* yielded and `finally` resets the processor.
AbandonStream ==
    /\ ~stream_ended
    /\ state' = "LOOKING_FOR_TAG"
    /\ current_tag' = <<>>
    /\ content_buffer' = <<>>
    /\ tag_buffer' = <<>>
    /\ debug_content' = <<>>
    /\ stream_ended' = TRUE
    /\ UNCHANGED <<response, text, rest, yielded, concurrent>>
    /\ AgentFrame

\* The next iteration of _conversation_loop: process_stream is called again
\* on the same processor with the token stream of a new response. The
\* stream before ended normally: its last event is the debug event.
NextStream ==
    /\ stream_ended
    /\ yielded # <<>>
    /\ Last(yielded).tag = DEBUG
    /\ streams < MaxReuse
    /\ streams' = streams + 1
    /\ response' \in Responses
    /\ text' = Render(response')
    /\ rest' = text'
    /\ yielded' = <<>>
    /\ stream_ended' = FALSE
    /\ UNCHANGED <<state, current_tag, content_buffer, tag_buffer, debug_content,
                   concurrent>>
    /\ UNCHANGED <<pc, context, incoming, messages, initial_message_count, iteration,
                   max_iterations, status, current_plan, tool_queue, tool_results,
                   tool_index, has_error, stream_len, section_open, uuids,
                   summaries, prompt, events>>

ReuseNext ==
    \/ TokenLookingForTag
    \/ TokenReadingTag
    \/ TokenReadingContent
    \/ EndOfStream
    \/ AbandonStream
    \/ NextStream

ReuseSpec == TagInit /\ [][ReuseNext]_vars

\* C39: the one TagProcessor of a request serves every iteration, and after
\* each process_stream call, however it ended, the parser is back in
\* LOOKING_FOR_TAG with empty current_tag, content_buffer, tag_buffer and
\* debug_content; nothing of an earlier stream leaks into a later one: every
\* stream starts on the reset fields, debug_content holds the characters
\* delivered by the current stream only, and every event carries content of
\* the current stream's text only.
C39_ProcessorIsResetAfterEveryStream ==
    /\ stream_ended => (Fields = ResetFields /\ debug_content = <<>>)
    /\ (~stream_ended /\ rest = text) => (Fields = ResetFields /\ debug_content = <<>>)
    /\ ~stream_ended => debug_content \o rest = text
    /\ \A j \in 1..Len(yielded) : IsInfix(yielded[j].content, text)

\* A later stream on the reused processor ended normally after a section
\* had been left open by the stream before it.
C39_Witness ==
    /\ streams = 2
    /\ stream_ended
    /\ yielded # <<>>
    /\ Last(yielded).tag = DEBUG
    /\ Len(response) = 2
    /\ Len(yielded) >= 3

\* ======================================================== concurrent calls
(***************************************************************************)
(* ConcSpec: MaxCalls process_message calls run side by side on the one    *)
(* ConversationManager of main.py, each through one LLM stream and the end *)
(* of the request, interleaved at their suspension points: awaiting a      *)
(* token, yielding an event. What a call works on (its context, its state, *)
(* its locals, its TagProcessor) is held per call or per object, as        *)
(* process_message creates it; the manager's helpers hold no field that is *)
(* written after __init__. The streams end the request in their first      *)
(* iteration, so no tool is dispatched.                                    *)
(***************************************************************************)

\* Calls that run side by side.
MaxCalls == 2

Calls == 1..MaxCalls

\* The payload {"status": v}, and Status.model_validate_json on a payload:
\* the status value, or NoStatus when the validation fails.
StatusJson(v) == <<"{", "status", ":", v, "}">>

ParseStatus(content) ==
    IF \E v \in StatusValues : content = StatusJson(v)
    THEN CHOOSE v \in StatusValues : content = StatusJson(v)
    ELSE NoStatus

\* The payload of a reasoning section, and Reasoning.model_validate_json on
\* a payload: the user_notification, or <<>> when the validation fails.
ReasoningJson == <<"{", "thought", ":", "t", ",", "user_notification", ":", "ok", "}">>

ParseReasoning(content) ==
    IF content = ReasoningJson THEN <<"ok">> ELSE <<>>

\* The token streams of the calls: a text section, a status section, both, a
\* section of an unrecognized tag, no token at all (LLMService.stream yields
\* only chunks with content), a section the LLM tags debug, a reasoning
\* section before a text section.
TextTokens == << <<Sentinel>>, TEXT \o <<Newline>>, <<"h", "i">> >>
StatusTokens(v) == << <<Sentinel>>, STATUS \o <<Newline>>, StatusJson(v) >>
NoteTokens == << <<Sentinel>>, NOTE \o <<Newline>>, <<"{", "}">> >>

ConcStreams ==
    { TextTokens,
      TextTokens \o StatusTokens("complete"),
      StatusTokens("clarify"),
      NoteTokens,
      <<>>,
      << <<Sentinel>>, DEBUG \o <<Newline>>, <<"{", "}">> >>,
      << <<Sentinel>>, REASONING \o <<Newline>>, ReasoningJson >> \o TextTokens }

\* The histories the clients send.
ConcContexts == { <<>>, <<"human", "ai">> }

\* process_message up to the loop: the human message is added to the call's
\* context, a new state is made (`messages` holds what is added to
\* state.messages after initial_message_count).
NewCall(tokens, hist) ==
    [pc |-> "stream", stream |-> tokens, rest |-> tokens, pending |-> <<>>,
     incoming |-> hist, context |-> Append(hist, "human"), status |-> NoStatus, messages |-> <<>>,
     has_error |-> FALSE, events |-> <<>>]

\* TagProcessor.__init__
NewProcessor ==
    [state |-> "LOOKING_FOR_TAG", current_tag |-> <<>>, content_buffer |-> <<>>,
     tag_buffer |-> <<>>, debug_content |-> <<>>]

\* One TagProcessor for all calls, as a field of the manager would be.
ProcessorOf_OnManager(r) == 1

\* _create_tag_processor returns a new TagProcessor to each call.
ProcessorOf(r) == r

\* Yield putting the event before the ones yielded earlier.
Yield_Prepend(c, ev) ==
    [c EXCEPT !.events = <<ev>> \o @,
              !.has_error = @ \/ ev.type = "error"]

\* The call yields an outbound event; an error event sets has_error.
Yield(c, ev) ==
    [c EXCEPT !.events = Append(@, ev),
              !.has_error = @ \/ ev.type = "error"]

\* _process_llm_response on one event of the tag processor, for the tags of
\* ConcStreams: the call afterwards.
HandleEvent(c, e) ==
    IF InvalidTag(e.tag) THEN Yield(c, Event("error", <<"invalid_tag">>))
    ELSE CASE e.tag = TEXT -> Yield(c, Event("text", e.content))
           [] e.tag = REASONING ->
                IF ParseReasoning(e.content) # <<>>
                THEN Yield(c, Event("reasoning", ParseReasoning(e.content)))
                ELSE Yield(c, ValidationFailure("reasoning")[1])
           [] e.tag = FULL_TEXT ->
                [c EXCEPT !.messages = Append(@, Message("ai", "text", e.content))]
           [] e.tag = STATUS ->
                IF ParseStatus(e.content) # NoStatus
                THEN [c EXCEPT !.status = ParseStatus(e.content)]
                ELSE Yield(c, ValidationFailure("status")[1])
           [] e.tag = DEBUG -> c

\* _conversation_loop after the stream of the first iteration.
AfterStream(c) ==
    IF c.has_error THEN [c EXCEPT !.pc = "finish"]
    ELSE IF MissingStatusEvents(c.status) # <<>>
    THEN [c EXCEPT !.events = @ \o MissingStatusEvents(c.status), !.pc = "finish"]
    ELSE IF IsConversationComplete(c.status) THEN [c EXCEPT !.pc = "finish"]
    ELSE [c EXCEPT !.pc = "loop"]

\* _process_conversation after the loop.
FinishedCall(c) ==
    IF IsConversationComplete(c.status)
    THEN IF SummaryRaises(NoPlan, c.status)
         THEN [c EXCEPT !.context = UpdateContext(@, c.messages, 0),
                        !.pc = "raised"]
         ELSE [c EXCEPT !.context = UpdateContext(@, c.messages, 0),
                        !.events = @ \o FinalEvents(c.status,
                            ContextDump(UpdateContext(c.context, c.messages, 0),
                                        0, NoPlan, c.status)),
                        !.pc = "done"]
    ELSE [c EXCEPT !.events = @ \o FinalEvents(c.status, <<>>), !.pc = "done"]

ConcInit ==
    /\ AgentInit
    /\ incoming = <<>>
    /\ ProcessorIdle
    /\ calls \in [Calls -> { NewCall(t, h) : t \in ConcStreams, h \in ConcContexts }]
    /\ processors = [p \in Calls |-> NewProcessor]
    /\ fetcher = NoFetch

ConcFrame ==
    /\ AgentFrame
    /\ UNCHANGED <<processor, fetcher>>

\* The call's `async for token`: the token goes through the call's
\* TagProcessor, whose results wait to be yielded one by one.
CallReadToken(r) ==
    /\ calls[r].pc = "stream"
    /\ calls[r].pending = <<>>
    /\ calls[r].rest # <<>>
    /\ processors' = [processors EXCEPT ![ProcessorOf(r)] =
         [ProcessToken(@, Head(calls[r].rest)).fields
            EXCEPT !.debug_content = DebugAppend(@, Head(calls[r].rest))]]
    /\ calls' = [calls EXCEPT
         ![r].rest = Tail(@),
         ![r].pending = ProcessToken(processors[ProcessorOf(r)], Head(calls[r].rest)).results]
    /\ ConcFrame

\* The token stream of the call is exhausted: flush, debug event, reset.
CallEndOfStream(r) ==
    /\ calls[r].pc = "stream"
    /\ calls[r].pending = <<>>
    /\ calls[r].rest = <<>>
    /\ calls' = [calls EXCEPT
         ![r].pending = FlushResults(processors[ProcessorOf(r)])
                          \o DebugResults(processors[ProcessorOf(r)].debug_content),
         ![r].pc = "flushed"]
    /\ processors' = [processors EXCEPT ![ProcessorOf(r)] = NewProcessor]
    /\ ConcFrame

\* The next event of the tag processor is handled and what the handler
\* returns is yielded.
CallHandleEvent(r) ==
    /\ calls[r].pending # <<>>
    /\ calls' = [calls EXCEPT ![r] =
         [HandleEvent(@, Head(calls[r].pending)) EXCEPT !.pending = Tail(calls[r].pending)]]
    /\ UNCHANGED processors
    /\ ConcFrame

CallAfterStream(r) ==
    /\ calls[r].pc = "flushed"
    /\ calls[r].pending = <<>>
    /\ calls' = [calls EXCEPT ![r] = AfterStream(@)]
    /\ UNCHANGED processors
    /\ ConcFrame

CallFinish(r) ==
    /\ calls[r].pc = "finish"
    /\ calls' = [calls EXCEPT ![r] = FinishedCall(@)]
    /\ UNCHANGED processors
    /\ ConcFrame

ConcNext ==
    \/ \E r \in Calls : CallReadToken(r)
    \/ \E r \in Calls : CallEndOfStream(r)
    \/ \E r \in Calls : CallHandleEvent(r)
    \/ \E r \in Calls : CallAfterStream(r)
    \/ \E r \in Calls : CallFinish(r)

ConcSpec == ConcInit /\ [][ConcNext]_vars

\* The same call run alone: its whole token stream through a TagProcessor of
\* its own, every event handled, then the end of the request.
RECURSIVE HandleAll(_, _)
HandleAll(c, results) ==
    IF results = <<>> THEN c
    ELSE HandleAll(HandleEvent(c, Head(results)), Tail(results))

RunAlone(c) ==
    FinishedCall(AfterStream(
        HandleAll(NewCall(c.stream, c.incoming), ProcessStream(c.stream))))

DebugEvents(results) == { j \in 1..Len(results) : results[j].tag = DEBUG }

\* The raw output of an LLM stream: its tokens joined.
RECURSIVE RawOutput(_)
RawOutput(tokens) ==
    IF tokens = <<>> THEN <<>> ELSE Head(tokens) \o RawOutput(Tail(tokens))

\* C35: for every LLM stream the processor emits the debug event exactly
\* once and as the last event of the stream (none while tokens are read, one
\* at the end of what the end of the stream yields), and the call never
\* yields an outbound event of type debug, nor a text event that carries the
\* raw output.
C35_DebugOncePerStreamAndNeverOutbound ==
    [][\A r \in Calls :
         /\ calls'[r].pc = "stream" => DebugEvents(calls'[r].pending) = {}
         /\ (calls[r].pc = "stream" /\ calls'[r].pc = "flushed") =>
               /\ calls'[r].pending # <<>>
               /\ DebugEvents(calls'[r].pending) = {Len(calls'[r].pending)}
         /\ \A j \in 1..Len(calls'[r].events) :
               /\ calls'[r].events[j].type # "debug"
               /\ (calls'[r].events[j].type = "text" /\ calls'[r].stream # <<>>) =>
                      calls'[r].events[j].content # RawOutput(calls'[r].stream)]_vars

\* ----------------------------------------- the order of forwarded events

\* async for token in token_stream: the results of _process_token for the
\* tokens read so far, before the end of the stream.
RECURSIVE TokenResults(_, _)
TokenResults(p, tokens) ==
    IF tokens = <<>> THEN <<>>
    ELSE ProcessToken(p, Head(tokens)).results
         \o TokenResults(ProcessToken(p, Head(tokens)).fields, Tail(tokens))

\* What the call forwards of the processor's results: the reasoning and
\* streamed text events, in their order.
RECURSIVE ForwardedOf(_)
ForwardedOf(results) ==
    IF results = <<>> THEN <<>>
    ELSE (CASE Head(results).tag = TEXT -> <<Event("text", Head(results).content)>>
            [] Head(results).tag = REASONING ->
                 <<Event("reasoning", ParseReasoning(Head(results).content))>>
            [] OTHER -> <<>>)
         \o ForwardedOf(Tail(results))

\* The reasoning and text events among the outbound events of a call.
Forwarded(ev) == SelectSeq(ev, LAMBDA e : e.type \in StreamEventTypes)

\* The results of the tag processor for what call c has read of its stream.
ProducedSoFar(c) ==
    IF c.pc = "stream"
    THEN TokenResults(NewProcessor, SubSeq(c.stream, 1, Len(c.stream) - Len(c.rest)))
    ELSE ProcessStream(c.stream)

\* The results for the tokens before the one read last.
ProducedBeforeLastToken(c) ==
    TokenResults(NewProcessor, SubSeq(c.stream, 1, Len(c.stream) - Len(c.rest) - 1))

IsPrefix(a, b) == Len(a) <= Len(b) /\ SubSeq(b, 1, Len(a)) = a

\* C36: the outbound sequence preserves production order: the reasoning and
\* text events of a call, followed by those still to be yielded, are the
\* reasoning and streamed text events the tag processor has produced, in
\* the same order, none dropped or duplicated; and every one produced by a
\* token before the last one read has been forwarded already.
C36_ForwardedInProductionOrder ==
    \A r \in Calls :
        /\ Forwarded(calls[r].events) \o ForwardedOf(calls[r].pending)
             = ForwardedOf(ProducedSoFar(calls[r]))
        /\ (calls[r].pc = "stream" /\ calls[r].rest # calls[r].stream) =>
             IsPrefix(ForwardedOf(ProducedBeforeLastToken(calls[r])),
                      Forwarded(calls[r].events))

\* A call has forwarded a reasoning event and two text events, in that
\* order, while the other call is still reading its stream.
C36_Witness ==
    /\ calls # <<>>
    /\ Len(Forwarded(calls[1].events)) = 3
    /\ Forwarded(calls[1].events)[1].type = "reasoning"
    /\ Forwarded(calls[1].events)[3] = Event("text", <<"h", "i">>)
    /\ calls[2].pc = "stream"
    /\ calls[2].rest # <<>>

\* ======================================================== HTMLFetcher.fetch
(***************************************************************************)
(* FetchSpec: one call of HTMLFetcher.fetch of the web search tool. Every  *)
(* attempt ends in a response (200 with a body, or another status), in an  *)
(* aiohttp.ClientError or in an asyncio.TimeoutError (session.get has      *)
(* timeout=10). `fetcher` records the outcomes of the attempts and the     *)
(* sleeps in the order in which they happen.                               *)
(***************************************************************************)

\* for attempt in range(3)
Attempts == 3

\* The exceptions fetch catches: aiohttp.ClientError, asyncio.TimeoutError.
TransportErrors == {"client_error", "timeout"}

\* fetch(url, headers) is called.
FetchInit ==
    /\ AgentInit
    /\ incoming = <<>>
    /\ ProcessorIdle
    /\ calls = <<>>
    /\ processors = <<>>
    /\ fetcher = [NoFetch EXCEPT !.pc = "request"]

\* response.status == 200: the body is returned.
FetchOk ==
    /\ fetcher.pc = "request"
    /\ \E body \in {"a", "b"} :
         fetcher' = [fetcher EXCEPT
             !.outcomes = Append(@, [kind |-> "response", status |-> 200, body |-> body]),
             !.result = body,
             !.pc = "returned"]
    /\ AgentFrame
    /\ UNCHANGED <<processor, calls, processors>>

\* Any other status: await asyncio.sleep(2 ** attempt).
FetchOtherStatus ==
    /\ fetcher.pc = "request"
    /\ \E code \in {404, 500} :
         fetcher' = [fetcher EXCEPT
             !.outcomes = Append(@, [kind |-> "response", status |-> code, body |-> ""]),
             !.waits = Append(@, [after |-> Len(fetcher.outcomes) + 1,
                                  seconds |-> 2 ^ fetcher.attempt]),
             !.pc = "sleep"]
    /\ AgentFrame
    /\ UNCHANGED <<processor, calls, processors>>

\* The next turn of the for loop; after the last one the loop is left and
\* NetworkError is raised.
NextAttempt(f) ==
    IF f.attempt = Attempts - 1
    THEN [f EXCEPT !.pc = "raised"]
    ELSE [f EXCEPT !.attempt = @ + 1, !.pc = "request"]

\* The sleep is over.
FetchWake ==
    /\ fetcher.pc = "sleep"
    /\ fetcher' = NextAttempt(fetcher)
    /\ AgentFrame
    /\ UNCHANGED <<processor, calls, processors>>

\* except aiohttp.ClientError / asyncio.TimeoutError: NetworkError is raised
\* if attempt == 2, else the loop goes on at once.
FetchTransportError ==
    /\ fetcher.pc = "request"
    /\ \E kind \in TransportErrors :
         fetcher' = NextAttempt([fetcher EXCEPT
             !.outcomes = Append(@, [kind |-> kind, status |-> 0, body |-> ""])])
    /\ AgentFrame
    /\ UNCHANGED <<processor, calls, processors>>

FetchNext ==
    \/ FetchOk
    \/ FetchOtherStatus
    \/ FetchWake
    \/ FetchTransportError

FetchSpec == FetchInit /\ [][FetchNext]_vars

IsOk(o) == o.kind = "response" /\ o.status = 200

\* fetch makes at most 3 attempts and ends after them.
FetchAttemptsBounded ==
    /\ Len(fetcher.outcomes) <= Attempts
    /\ (Len(fetcher.outcomes) = Attempts /\ fetcher.pc # "sleep") =>
           fetcher.pc \in {"returned", "raised"}

\* fetch returns the body of the first response with status 200, and raises
\* NetworkError after three attempts without one.
FetchResult ==
    /\ fetcher.pc = "returned" =>
          /\ IsOk(Last(fetcher.outcomes))
          /\ fetcher.result = Last(fetcher.outcomes).body
          /\ \A i \in 1..(Len(fetcher.outcomes) - 1) : ~IsOk(fetcher.outcomes[i])
    /\ fetcher.pc = "raised" =>
          /\ Len(fetcher.outcomes) = Attempts
          /\ \A i \in 1..Attempts : ~IsOk(fetcher.outcomes[i])
    /\ fetcher.pc \in {"request", "sleep"} =>
          \A i \in 1..Len(fetcher.outcomes) : ~IsOk(fetcher.outcomes[i])

\* Attempt i was followed by a sleep of 2^(i-1) seconds (attempt is counted
\* from 0 in the code).
BackedOffAfter(i) ==
    \E w \in 1..Len(fetcher.waits) :
        fetcher.waits[w] = [after |-> i, seconds |-> 2 ^ (i - 1)]

\* Between attempts fetch waits with exponential backoff after a failed
\* attempt of the given kinds.
BackoffAfter(kinds) ==
    \A i \in 1..(Len(fetcher.outcomes) - 1) :
        fetcher.outcomes[i].kind \in kinds => BackedOffAfter(i)

\* C37: HTMLFetcher.fetch makes at most 3 attempts and always terminates; it
\* returns the body of the first response with status 200 and otherwise
\* raises NetworkError; between attempts it waits 2^attempt seconds after a
\* transport error as well as after a non-200 response.
C37_FetchRetriesWithBackoff ==
    /\ FetchAttemptsBounded
    /\ FetchResult
    /\ BackoffAfter({"response"} \cup TransportErrors)

====
